---- MODULE Spec2Model ----
(***************************************************************************)
(* A model of tobii_g3.g3.G3Client (src/tobii_g3/g3.py): the connection    *)
(* lifecycle, the request identifier counter and the four primitives       *)
(* get_property, set_property, send_action and subscribe_signal, each      *)
(* split at the points where it reads or writes state shared with other    *)
(* callers (the counter _id, the websocket object ws and its transport);   *)
(* and of G3Client.discover_g3 with the ZeroconfListener it polls.         *)
(*                                                                         *)
(* The websocket-client library is not part of the repository.  It is      *)
(* modelled at its interface: ws.connect either returns, raises            *)
(* WebSocketTimeoutException or raises another error; ws.recv returns the  *)
(* next message, blocks, or raises WebSocketConnectionClosedException      *)
(* (marking the object not connected) once the peer has closed; ws.send    *)
(* raises WebSocketConnectionClosedException when the object holds no      *)
(* socket.                                                                 *)
(***************************************************************************)
EXTENDS Integers, Sequences, FiniteSets, TLC

VARIABLES
    glasses_address, \* G3Client._glasses_address
    _id,             \* G3Client._id, the request identifier counter
    ws,              \* G3Client.ws and the transport behind it
    pc,              \* per caller: the position inside the primitive it runs
    call,            \* per caller: the locals of the primitive it runs
    last,            \* the operation completed most recently and its outcome
    gens,            \* history: the identifiers returned by _generate_ws_id
    broken           \* history: a call failed with G3ConnectionError since
                     \* the last successful connect()

VARIABLES
    _discovered_ips,     \* ZeroconfListener._discovered_ips (class attribute)
    _discovered_ipv6s,   \* ZeroconfListener._discovered_ipv6s (class attribute)
    _discovered_servers, \* ZeroconfListener._discovered_servers (class
                         \* attribute)
    scan,                \* the discover_g3 call in progress or ended last
    heard                \* history: what the services announced during that
                         \* call

dvars == <<_discovered_ips, _discovered_ipv6s, _discovered_servers, scan,
           heard>>

cvars == <<glasses_address, _id, ws, pc, call, last, gens, broken>>

vars == <<glasses_address, _id, ws, pc, call, last, gens, broken,
          _discovered_ips, _discovered_ipv6s, _discovered_servers, scan,
          heard>>

----------------------------------------------------------------------------
(* Bounds of the model.                                                    *)

NThreads == 2   \* callers sharing one client in SpecConc
MaxCalls == 2   \* primitive calls begun in one behaviour of Spec, SpecConc
MaxGens == 1030 \* identifiers generated in one behaviour of SpecId
MaxInbox == 2   \* messages the device has sent unasked and nobody has read
MaxScans == 2   \* discover_g3 calls begun in one behaviour of SpecDisc
MaxServers == 2 \* announcements resolved in one behaviour of SpecDisc

(* Program constants.                                                      *)

IdModulus == 1024
max_attempts == 100 \* timeout / sleep_interval, 10 s in steps of 0.1 s

Threads == 1..NThreads
Addrs == {"g3-abc", "10.0.0.5"}
Prims == {"get_property", "set_property", "send_action", "subscribe_signal"}
BodyValues == {"false", "0", "null", "[]", "42"}

----------------------------------------------------------------------------
(* Messages and values.                                                    *)

\* A message read from the transport.  kind "json" is a JSON object, of
\* which the model keeps the keys the client looks at; kind "text" is a
\* payload json.loads rejects.
Msg(kind, hasId, id, hasBody, body, ei, er, mg) ==
    [kind |-> kind, hasId |-> hasId, id |-> id, hasBody |-> hasBody,
     body |-> body, error_info |-> ei, error |-> er, message |-> mg]

NoMsg == Msg("none", FALSE, 0, FALSE, "none", FALSE, FALSE, FALSE)

\* What a call hands back: nothing, a JSON value, or a whole envelope.
NoValue == [t |-> "none", v |-> "none", env |-> NoMsg]
JsonVal(b) == [t |-> "body", v |-> b, env |-> NoMsg]
Envelope(m) == [t |-> "envelope", v |-> "none", env |-> m]

Raise(e) == [exc |-> e, ret |-> NoValue]
Return(v) == [exc |-> "none", ret |-> v]

\* ws_dict of the _request_* helpers: path sigil, id, method, body or not.
Request(prim, id) ==
    [prim |-> prim, id |-> id,
     sigil |-> CASE prim = "send_action" -> "!"
                 [] prim = "subscribe_signal" -> ":"
                 [] OTHER -> ".",
     method |-> IF prim = "get_property" THEN "GET" ELSE "POST",
     hasBody |-> prim # "get_property"]

----------------------------------------------------------------------------
(* The websocket object.                                                   *)

NoSock == <<"none", "none", "none">>

\* G3Client.ws_url
ws_url(addr) == <<"ws://", addr, "/websocket/">>

\* websocket.WebSocket(): no socket, not connected.  nopen counts the
\* sockets this client holds open; peer, inbox and wire are the far end of
\* the current socket, the messages it has delivered and the requests it
\* has not answered.
NewWebSocket ==
    [connected |-> FALSE, sock |-> NoSock, subprotocols |-> <<>>, nopen |-> 0,
     peer |-> "none", inbox |-> <<>>, wire |-> <<>>]

\* ws.close()
WsClose(w) ==
    IF w.sock = NoSock
    THEN [w EXCEPT !.connected = FALSE]
    ELSE [w EXCEPT !.connected = FALSE, !.sock = NoSock,
                   !.subprotocols = <<>>, !.nopen = @ - 1, !.peer = "none",
                   !.inbox = <<>>, !.wire = <<>>]

\* ws.connect(url, subprotocols=...) with outcome o.  A failed attempt
\* leaves the object as it was.
WsConnect(w, url, subs, o) ==
    IF o = "ok"
    THEN [w EXCEPT !.connected = TRUE, !.sock = url, !.subprotocols = subs,
                   !.nopen = @ + 1, !.peer = "open", !.inbox = <<>>,
                   !.wire = <<>>]
    ELSE w

\* G3Client.connected
connected(w) == w.connected

----------------------------------------------------------------------------
(* The client's pure steps.                                                *)

\* Variant: a wrapper that lets every call through.
requires_connection_off(w) == TRUE

\* requires_connection: the wrapped function runs only on a connected ws.
requires_connection(w) == connected(w)

\* Variant: connect() that opens the new transport over the old one.
CloseIfConnected_skip(w) == w

\* connect(), lines 238-239: close a live connection first.
CloseIfConnected(w) == IF connected(w) THEN WsClose(w) ELSE w

\* Variant: connect() without the except clause.
ConnectExc_raw(o) ==
    CASE o = "ok" -> "none"
      [] o = "timeout" -> "WebSocketTimeoutException"
      [] OTHER -> "OSError"

\* connect(), lines 241-246: what the caller sees for each outcome of
\* ws.connect.  Only the library's timeout is translated.
ConnectExc(o) ==
    CASE o = "ok" -> "none"
      [] o = "timeout" -> "G3TimeoutError"
      [] OTHER -> "OSError"

\* Variant: the counter wrapped one short, self._id %= 1023.
Wrap_short(v) == v % (IdModulus - 1)

\* _generate_ws_id: self._id += 1, then self._id %= 1024.
Inc(v) == v + 1
Wrap(v) == v % IdModulus

\* "body" in response / response["body"] / response, lines 296-299.
BodyOf(response) ==
    IF response.hasBody THEN JsonVal(response.body) ELSE Envelope(response)

\* Variant: body == False, which the integer 0 satisfies too.
IsFalse_eq(body) == body.t = "body" /\ body.v \in {"false", "0"}

\* body is False
IsFalse(body) == body.t = "body" /\ body.v = "false"

\* Variant: body = response.get("body") or response, which replaces a
\* falsy body by the envelope.
get_property_truthy(response, request_id) ==
    LET body == IF response.hasBody /\ response.body = "42"
                THEN JsonVal(response.body) ELSE Envelope(response) IN
    IF ~response.hasId THEN Raise("KeyError")
    ELSE IF response.id = request_id THEN Return(body)
    ELSE Raise("G3InvalidIdError")

\* get_property, lines 296-306, on the decoded response.
get_property(response, request_id) ==
    LET body == BodyOf(response) IN
    IF ~response.hasId THEN Raise("KeyError")
    ELSE IF response.id = request_id THEN Return(body)
    ELSE Raise("G3InvalidIdError")

\* Variant: set_property that looks at the body before the identifier.
set_property_body_first(response, request_id) ==
    LET body == BodyOf(response) IN
    IF ~response.hasId THEN Raise("KeyError")
    ELSE IF IsFalse(body) THEN Raise("G3ErrorResponse")
    ELSE IF ~(response.id = request_id) THEN Raise("G3InvalidIdError")
    ELSE Return(body)

\* set_property, lines 340-355.
set_property(response, request_id) ==
    LET body == BodyOf(response) IN
    IF ~response.hasId THEN Raise("KeyError")
    ELSE IF ~(response.id = request_id) THEN Raise("G3InvalidIdError")
    ELSE IF IsFalse(body) THEN Raise("G3ErrorResponse")
    ELSE Return(body)

\* send_action, lines 394-419.  The second error branch formats
\* response['message'] into its text before raising.
send_action(response, request_id) ==
    LET body == BodyOf(response) IN
    IF ~response.hasId THEN Raise("KeyError")
    ELSE IF ~(response.id = request_id) THEN Raise("G3InvalidIdError")
    ELSE IF response.error_info THEN Raise("G3ErrorResponse")
    ELSE IF response.error
         THEN (IF response.message THEN Raise("G3ErrorResponse")
               ELSE Raise("KeyError"))
    ELSE IF IsFalse(body) THEN Raise("G3ErrorResponse")
    ELSE Return(body)

\* subscribe_signal, lines 498-503: response["body"] is read first.
subscribe_signal(response, request_id) ==
    IF ~response.hasBody THEN Raise("KeyError")
    ELSE IF ~response.hasId THEN Raise("KeyError")
    ELSE IF ~(response.id = request_id) THEN Raise("G3InvalidIdError")
    ELSE Return(JsonVal(response.body))

\* json.loads(data) in _ws_recv, then the primitive's own checks.
Process(prim, data, request_id) ==
    IF data.kind # "json" THEN Raise("JSONDecodeError")
    ELSE CASE prim = "get_property" -> get_property(data, request_id)
           [] prim = "set_property" -> set_property(data, request_id)
           [] prim = "send_action" -> send_action(data, request_id)
           [] OTHER -> subscribe_signal(data, request_id)

----------------------------------------------------------------------------
(* Discovery: ZeroconfListener and G3Client.discover_g3.  The zeroconf     *)
(* library is modelled at its interface: between the creation of the       *)
(* ServiceBrowser and zeroconf.close() it calls the listener's handlers,   *)
(* from its own thread, with whatever the network announces.               *)

\* Host names and addresses.  info.server is a name that may end in a dot.
None == [v |-> "none"]
Host(a, dot) == [v |-> "name", a |-> a, dot |-> dot]
Ip(v, a) == [v |-> v, a |-> a]

default_wifi_ip == Ip("4", "192.168.75.51")

\* What zeroconf.get_service_info may return for an announced service:
\* nothing, or a server name with its addresses.
NoInfo == [server |-> None, addrs |-> <<>>]
Infos ==
    {[server |-> Host("g3-abc", TRUE), addrs |-> <<>>],
     [server |-> Host("g3-abc", TRUE),
      addrs |-> <<Ip("4", "10.0.0.5"), Ip("6", "fe80::1")>>],
     [server |-> Host("g3-xyz", FALSE), addrs |-> <<Ip("4", "10.0.0.6")>>]}

Contains(s, x) == \E i \in DOMAIN s : s[i] = x
Last(s) == s[Len(s)]

\* list.remove(x): the first occurrence goes.
RECURSIVE Remove(_, _)
Remove(s, x) ==
    IF s = <<>> THEN <<>>
    ELSE IF Head(s) = x THEN Tail(s)
    ELSE <<Head(s)>> \o Remove(Tail(s), x)

\* ZeroconfListener.is_ipv4
is_ipv4(ip) == ip.v = "4"

\* add_service: a trailing dot of info.server is dropped.
StripDot(server) ==
    IF server.dot THEN [server EXCEPT !.dot = FALSE] ELSE server

\* add_service: the loop over info.parsed_scoped_addresses().
RECURSIVE AddAddresses(_, _, _)
AddAddresses(ips, ipv6s, addrs) ==
    IF addrs = <<>> THEN <<ips, ipv6s>>
    ELSE LET ip == Head(addrs)
         IN IF ~Contains(ips, ip) /\ is_ipv4(ip)
            THEN AddAddresses(Append(ips, ip), ipv6s, Tail(addrs))
            ELSE IF ~Contains(ipv6s, ip) /\ ~is_ipv4(ip)
            THEN AddAddresses(ips, Append(ipv6s, ip), Tail(addrs))
            ELSE AddAddresses(ips, ipv6s, Tail(addrs))

\* remove_service: the loop over info.parsed_addresses().
RECURSIVE RemoveAddresses(_, _)
RemoveAddresses(ips, addrs) ==
    IF addrs = <<>> THEN ips
    ELSE IF Contains(ips, Head(addrs))
    THEN RemoveAddresses(Remove(ips, Head(addrs)), Tail(addrs))
    ELSE RemoveAddresses(ips, Tail(addrs))

\* discover_g3, the finally block: the choice of the address returned.
Select(servers, ips) ==
    IF servers # <<>> THEN Last(servers)
    ELSE IF ips # <<>> THEN Last(ips)
    ELSE None

NoScan == [pc |-> "idle", attempts |-> 0, ret |-> None, probe |-> "none",
           n |-> 0]
NoHeard == [servers |-> <<>>, ips |-> <<>>]

\* The class body of ZeroconfListener, executed once when the module is
\* loaded; no discover_g3 call has begun.
DiscInit ==
    /\ _discovered_ips = <<>>
    /\ _discovered_ipv6s = <<>>
    /\ _discovered_servers = <<>>
    /\ scan = NoScan
    /\ heard = NoHeard

\* The ServiceBrowser is running.
Browsing == scan.pc \in {"poll", "finally"}

ProbeOutcomes == {"ok", "not_ok", "exception"}

\* discover_g3 up to the while loop: the request to the address the
\* glasses have as an access point, then a new listener and a browser.
discover_g3(o) ==
    /\ scan.pc \in {"idle", "done"}
    /\ scan.n < MaxScans
    /\ scan' = IF o = "ok"
               THEN [pc |-> "done", attempts |-> 0, ret |-> default_wifi_ip,
                     probe |-> o, n |-> scan.n + 1]
               ELSE [pc |-> "poll", attempts |-> 0, ret |-> None,
                     probe |-> o, n |-> scan.n + 1]
    /\ heard' = NoHeard
    /\ UNCHANGED <<_discovered_ips, _discovered_ipv6s, _discovered_servers>>
    /\ UNCHANGED cvars

\* discover_g3: one evaluation of the loop condition, and the sleep.
Poll ==
    /\ scan.pc = "poll"
    /\ scan' = IF /\ ~(_discovered_servers # <<>> \/ _discovered_ips # <<>>)
                  /\ scan.attempts < max_attempts
               THEN [scan EXCEPT !.attempts = @ + 1]
               ELSE [scan EXCEPT !.pc = "finally"]
    /\ UNCHANGED <<_discovered_ips, _discovered_ipv6s, _discovered_servers,
                   heard>>
    /\ UNCHANGED cvars

\* discover_g3: zeroconf.close(), the choice, return.
Finally ==
    /\ scan.pc = "finally"
    /\ scan' = [scan EXCEPT !.pc = "done",
                            !.ret = Select(_discovered_servers,
                                           _discovered_ips)]
    /\ UNCHANGED <<_discovered_ips, _discovered_ipv6s, _discovered_servers,
                   heard>>
    /\ UNCHANGED cvars

\* Variant: add_service that records the addresses and not the server.
add_service_addresses_only(info) ==
    /\ Browsing
    /\ IF info = NoInfo
       THEN UNCHANGED dvars
       ELSE LET server == StripDot(info.server)
                lists == AddAddresses(_discovered_ips, _discovered_ipv6s,
                                      info.addrs)
            IN /\ Len(heard.servers) < MaxServers
               /\ _discovered_ips' = lists[1]
               /\ _discovered_ipv6s' = lists[2]
               /\ heard' = [servers |-> Append(heard.servers, server),
                            ips |-> heard.ips \o
                                    SelectSeq(info.addrs, is_ipv4)]
               /\ UNCHANGED <<_discovered_servers, scan>>
    /\ UNCHANGED cvars

\* ZeroconfListener.add_service
add_service(info) ==
    /\ Browsing
    /\ IF info = NoInfo
       THEN UNCHANGED dvars
       ELSE LET server == StripDot(info.server)
                lists == AddAddresses(_discovered_ips, _discovered_ipv6s,
                                      info.addrs)
            IN /\ Len(_discovered_servers) < MaxServers
               /\ _discovered_servers' = Append(_discovered_servers, server)
               /\ _discovered_ips' = lists[1]
               /\ _discovered_ipv6s' = lists[2]
               /\ heard' = [servers |-> Append(heard.servers, server),
                            ips |-> heard.ips \o
                                    SelectSeq(info.addrs, is_ipv4)]
               /\ UNCHANGED scan
    /\ UNCHANGED cvars

\* ZeroconfListener.remove_service
remove_service(info) ==
    /\ Browsing
    /\ IF info = NoInfo
       THEN UNCHANGED _discovered_ips
       ELSE _discovered_ips' = RemoveAddresses(_discovered_ips, info.addrs)
    /\ UNCHANGED <<_discovered_ipv6s, _discovered_servers, scan, heard>>
    /\ UNCHANGED cvars

\* ZeroconfListener.update_service
update_service(info) ==
    /\ Browsing
    /\ UNCHANGED vars

----------------------------------------------------------------------------
(* State.                                                                  *)

NoCall ==
    [prim |-> "none", tmp |-> 0, req |-> -1, conn0 |-> FALSE,
     broken0 |-> FALSE, nsent |-> 0, nrecv |-> 0]

NoLast ==
    [t |-> 0, op |-> "none", exc |-> "none", ret |-> NoValue, req |-> -1,
     resp |-> NoMsg, conn0 |-> FALSE, broken0 |-> FALSE, nsent |-> 0,
     nrecv |-> 0, env |-> "none"]

\* G3Client.__init__
Init ==
    /\ glasses_address \in Addrs
    /\ _id = 0
    /\ ws = NewWebSocket
    /\ pc = [t \in Threads |-> "idle"]
    /\ call = [t \in Threads |-> NoCall]
    /\ last = NoLast
    /\ gens = <<>>
    /\ broken = FALSE
    /\ DiscInit

GenPcs == {"inc_store", "mod_load", "mod_store", "ret_load"}

\* The primitive calls begun so far.
Started == Len(gens) + Cardinality({t \in Threads : pc[t] \in GenPcs})

\* The end of a primitive call of caller t with result res, having read
\* resp; env is the exception the library raised, if any.
Finish(t, res, resp, c, env) ==
    /\ pc' = [pc EXCEPT ![t] = "idle"]
    /\ call' = [call EXCEPT ![t] = NoCall]
    /\ last' = [t |-> t, op |-> c.prim, exc |-> res.exc, ret |-> res.ret,
                req |-> c.req, resp |-> resp, conn0 |-> c.conn0,
                broken0 |-> c.broken0, nsent |-> c.nsent, nrecv |-> c.nrecv,
                env |-> env]
    /\ broken' = (broken \/ res.exc = "G3ConnectionError")

\* The end of connect(), disconnect() or an assignment to glasses_address.
Done(t, op, exc, env, was) ==
    last' = [NoLast EXCEPT !.t = t, !.op = op, !.exc = exc, !.env = env,
                           !.conn0 = was]

----------------------------------------------------------------------------
(* Connection lifecycle.                                                   *)

ConnectOutcomes == {"ok", "timeout", "refused"}

\* G3Client.connect
connect(t) ==
    /\ pc[t] = "idle"
    /\ \E o \in ConnectOutcomes :
          /\ ws' = WsConnect(CloseIfConnected(ws), ws_url(glasses_address),
                             <<"g3api">>, o)
          /\ Done(t, "connect", ConnectExc(o), o, connected(ws))
          /\ broken' = (broken /\ o # "ok")
    /\ UNCHANGED <<glasses_address, _id, pc, call, gens>>
    /\ UNCHANGED dvars

\* Variant: disconnect() that never closes.
Disconnected_noop(w) == w

\* G3Client.disconnect
Disconnected(w) == IF connected(w) THEN WsClose(w) ELSE w

disconnect(t) ==
    /\ pc[t] = "idle"
    /\ ws' = Disconnected(ws)
    /\ Done(t, "disconnect", "none", "none", connected(ws))
    /\ UNCHANGED <<glasses_address, _id, pc, call, gens, broken>>
    /\ UNCHANGED dvars

\* Variant: the setter assigns without disconnecting.
set_glasses_address_keep(t, addr) ==
    /\ pc[t] = "idle"
    /\ glasses_address' = addr
    /\ Done(t, "glasses_address", "none", "none", connected(ws))
    /\ UNCHANGED <<_id, ws, pc, call, gens, broken>>
    /\ UNCHANGED dvars

\* The glasses_address setter.
set_glasses_address(t, addr) ==
    /\ pc[t] = "idle"
    /\ ws' = Disconnected(ws)
    /\ glasses_address' = addr
    /\ Done(t, "glasses_address", "none", "none", connected(ws))
    /\ UNCHANGED <<_id, pc, call, gens, broken>>
    /\ UNCHANGED dvars

----------------------------------------------------------------------------
(* A primitive call, step by step.                                         *)

\* The call begins in _request_*: _generate_ws_id loads self._id.
Invoke(t, prim, cap) ==
    /\ pc[t] = "idle"
    /\ Started < cap
    /\ call' = [call EXCEPT ![t] =
                   [NoCall EXCEPT !.prim = prim, !.tmp = _id,
                                  !.conn0 = connected(ws),
                                  !.broken0 = broken]]
    /\ pc' = [pc EXCEPT ![t] = "inc_store"]
    /\ last' = NoLast
    /\ UNCHANGED <<glasses_address, _id, ws, gens, broken>>
    /\ UNCHANGED dvars

\* self._id += 1: the store.
IncStore(t) ==
    /\ pc[t] = "inc_store"
    /\ _id' = Inc(call[t].tmp)
    /\ pc' = [pc EXCEPT ![t] = "mod_load"]
    /\ UNCHANGED <<glasses_address, ws, call, last, gens, broken>>
    /\ UNCHANGED dvars

\* self._id %= 1024: the load.
ModLoad(t) ==
    /\ pc[t] = "mod_load"
    /\ call' = [call EXCEPT ![t].tmp = _id]
    /\ pc' = [pc EXCEPT ![t] = "mod_store"]
    /\ UNCHANGED <<glasses_address, _id, ws, last, gens, broken>>
    /\ UNCHANGED dvars

\* self._id %= 1024: the store.
ModStore(t) ==
    /\ pc[t] = "mod_store"
    /\ _id' = Wrap(call[t].tmp)
    /\ pc' = [pc EXCEPT ![t] = "ret_load"]
    /\ UNCHANGED <<glasses_address, ws, call, last, gens, broken>>
    /\ UNCHANGED dvars

\* return self._id; the request dictionary is built around it.
RetLoad(t) ==
    /\ pc[t] = "ret_load"
    /\ call' = [call EXCEPT ![t].req = _id]
    /\ gens' = Append(gens, _id)
    /\ pc' = [pc EXCEPT ![t] = "send_check"]
    /\ UNCHANGED <<glasses_address, _id, ws, last, broken>>
    /\ UNCHANGED dvars

\* _ws_send and _ws_recv translate one library exception.
SendExc(e) ==
    IF e = "WebSocketConnectionClosedException" THEN "G3ConnectionError"
    ELSE e

\* Variant: _ws_recv without the except clause.
RecvExc_raw(e) == e

RecvExc(e) ==
    IF e = "WebSocketConnectionClosedException" THEN "G3ConnectionError"
    ELSE e

\* _ws_send: the requires_connection wrapper.
SendCheck(t) ==
    /\ pc[t] = "send_check"
    /\ IF requires_connection(ws)
       THEN /\ pc' = [pc EXCEPT ![t] = "send"]
            /\ UNCHANGED <<call, last, broken>>
       ELSE Finish(t, Raise("G3NotConnectedError"), NoMsg, call[t], "none")
    /\ UNCHANGED <<glasses_address, _id, ws, gens>>
    /\ UNCHANGED dvars

\* _ws_send: self.ws.send(ws_json).  A request written towards a peer that
\* has closed is lost.
WsSend(t) ==
    /\ pc[t] = "send"
    /\ IF ws.sock = NoSock
       THEN /\ Finish(t, Raise(SendExc("WebSocketConnectionClosedException")),
                      NoMsg, call[t], "WebSocketConnectionClosedException")
            /\ UNCHANGED ws
       ELSE /\ ws' = [ws EXCEPT !.wire =
                         IF ws.peer = "open"
                         THEN Append(@, Request(call[t].prim, call[t].req))
                         ELSE @]
            /\ call' = [call EXCEPT ![t].nsent = @ + 1]
            /\ pc' = [pc EXCEPT ![t] = "recv_check"]
            /\ UNCHANGED <<last, broken>>
    /\ UNCHANGED <<glasses_address, _id, gens>>
    /\ UNCHANGED dvars

\* _ws_recv: the requires_connection wrapper.
RecvCheck(t) ==
    /\ pc[t] = "recv_check"
    /\ IF requires_connection(ws)
       THEN /\ pc' = [pc EXCEPT ![t] = "recv"]
            /\ UNCHANGED <<call, last, broken>>
       ELSE Finish(t, Raise("G3NotConnectedError"), NoMsg, call[t], "none")
    /\ UNCHANGED <<glasses_address, _id, ws, gens>>
    /\ UNCHANGED dvars

\* _ws_recv: self.ws.recv() and json.loads, then the rest of the primitive,
\* which touches no shared state.  With nothing to read and the peer open
\* the call blocks.
WsRecv(t) ==
    /\ pc[t] = "recv"
    /\ CASE ws.sock = NoSock ->
              /\ Finish(t, Raise(RecvExc("WebSocketConnectionClosedException")),
                        NoMsg, call[t], "WebSocketConnectionClosedException")
              /\ UNCHANGED ws
         [] ws.sock # NoSock /\ ws.inbox # <<>> ->
              LET data == Head(ws.inbox)
                  c == [call[t] EXCEPT !.nrecv = @ + 1]
              IN /\ ws' = [ws EXCEPT !.inbox = Tail(@)]
                 /\ Finish(t, Process(c.prim, data, c.req), data, c, "none")
         [] ws.sock # NoSock /\ ws.inbox = <<>> /\ ws.peer = "closed" ->
              /\ ws' = WsClose(ws)
              /\ Finish(t, Raise(RecvExc("WebSocketConnectionClosedException")),
                        NoMsg, call[t], "WebSocketConnectionClosedException")
         [] OTHER -> FALSE
    /\ UNCHANGED <<glasses_address, _id, gens>>
    /\ UNCHANGED dvars

----------------------------------------------------------------------------
(* The device and the network.                                             *)

\* The far end closes the connection.
PeerClose ==
    /\ ws.sock # NoSock
    /\ ws.peer = "open"
    /\ ws' = [ws EXCEPT !.peer = "closed"]
    /\ UNCHANGED <<glasses_address, _id, pc, call, last, gens, broken>>
    /\ UNCHANGED dvars

\* Every answer the device may give to the request with identifier rid: the
\* same identifier or another one, a body or none, any error markers; or a
\* payload that is not JSON.
RichResponses(rid) ==
    {Msg("json", TRUE, i, b # "absent", IF b = "absent" THEN "none" ELSE b,
         ei, er, mg) :
        i \in {rid, Wrap(Inc(rid))}, b \in BodyValues \cup {"absent"},
        ei \in BOOLEAN, er \in BOOLEAN, mg \in BOOLEAN}
    \cup {Msg("text", FALSE, 0, FALSE, "none", FALSE, FALSE, FALSE)}

\* The answer of a well-behaved device.
PlainResponses(rid) ==
    {Msg("json", TRUE, rid, TRUE, "42", FALSE, FALSE, FALSE)}

\* The device answers the oldest request it has not answered, with any
\* answer (rich) or as a well-behaved device does.  The answer
\* is delivered while a caller waits for one: delivered earlier, it would
\* sit in the socket buffer until then.
DeviceRespond(rich) ==
    /\ ws.peer = "open"
    /\ ws.wire # <<>>
    /\ \E t \in Threads : pc[t] = "recv"
    /\ \E m \in (IF rich THEN RichResponses(Head(ws.wire).id)
                ELSE PlainResponses(Head(ws.wire).id)) :
          ws' = [ws EXCEPT !.inbox = Append(@, m), !.wire = Tail(@)]
    /\ UNCHANGED <<glasses_address, _id, pc, call, last, gens, broken>>
    /\ UNCHANGED dvars

\* Messages the device sends unasked: a late answer to a request of long
\* ago, with a body or without one.
Unsolicited ==
    {Msg("json", TRUE, 0, b, IF b THEN "42" ELSE "none", FALSE, FALSE, FALSE) :
        b \in BOOLEAN}

\* The device sends a message nobody waits for; it stays in the socket
\* buffer until some call reads it.
DevicePush ==
    /\ ws.sock # NoSock
    /\ ws.peer = "open"
    /\ Len(ws.inbox) < MaxInbox
    /\ \E m \in Unsolicited : ws' = [ws EXCEPT !.inbox = Append(@, m)]
    /\ UNCHANGED <<glasses_address, _id, pc, call, last, gens, broken>>
    /\ UNCHANGED dvars

----------------------------------------------------------------------------
(* Specifications.                                                         *)

\* The steps inside a primitive call of caller t.
Steps(t) ==
    \/ IncStore(t)
    \/ ModLoad(t)
    \/ ModStore(t)
    \/ RetLoad(t)
    \/ SendCheck(t)
    \/ WsSend(t)
    \/ RecvCheck(t)
    \/ WsRecv(t)

\* One caller, any device.
Next ==
    \/ connect(1)
    \/ disconnect(1)
    \/ \E addr \in Addrs : set_glasses_address(1, addr)
    \/ \E prim \in Prims : Invoke(1, prim, MaxCalls)
    \/ Steps(1)
    \/ PeerClose
    \/ DeviceRespond(TRUE)

Spec == Init /\ [][Next]_vars

\* Several callers share the client; the device is well-behaved.
NextConc ==
    \/ \E t \in Threads :
          \/ connect(t)
          \/ disconnect(t)
          \/ \E prim \in Prims : Invoke(t, prim, MaxCalls)
          \/ Steps(t)
    \/ PeerClose
    \/ DeviceRespond(FALSE)

SpecConc == Init /\ [][NextConc]_vars

\* One caller issues get_property again and again on a client it connects
\* once; the device is well-behaved.
NextId ==
    \/ (~connected(ws) /\ connect(1))
    \/ Invoke(1, "get_property", MaxGens)
    \/ Steps(1)
    \/ DeviceRespond(FALSE)

SpecId == Init /\ [][NextId]_vars

\* One caller on a client it connects once; the device answers as a
\* well-behaved device does and also sends messages unasked.
NextPush ==
    \/ (~connected(ws) /\ last.op = "none" /\ connect(1))
    \/ \E prim \in Prims : Invoke(1, prim, MaxCalls)
    \/ Steps(1)
    \/ PeerClose
    \/ DeviceRespond(FALSE)
    \/ DevicePush

SpecPush == Init /\ [][NextPush]_vars

\* discover_g3 is called again and again in one process while services
\* come and go; no client is in use.
NextDisc ==
    \/ \E o \in ProbeOutcomes : discover_g3(o)
    \/ Poll
    \/ Finally
    \/ \E info \in Infos \cup {NoInfo} :
          \/ add_service(info)
          \/ remove_service(info)
          \/ update_service(info)

SpecDisc == Init /\ [][NextDisc]_vars

----------------------------------------------------------------------------
(* Properties.                                                             *)

Taxonomy ==
    {"G3TimeoutError", "G3NotConnectedError", "G3ConnectionError",
     "G3InvalidIdError", "G3ErrorResponse"}

\* The last completed operation is the primitive prim and it read a JSON
\* object carrying an id.
Answered(prim) ==
    /\ last.op = prim
    /\ last.nrecv = 1
    /\ last.resp.kind = "json"
    /\ last.resp.hasId

\* The body of the answer read last, as the specification defines it: the
\* body field, or the whole envelope when there is none.
AnswerBody ==
    IF last.resp.hasBody
    THEN [t |-> "body", v |-> last.resp.body, env |-> NoMsg]
    ELSE [t |-> "envelope", v |-> "none", env |-> last.resp]

\* A caller has sent its request and has not yet consumed a response.
InFlight(t) == pc[t] \in {"recv_check", "recv"}

\* C1: at most one request is in flight at any time: no caller sends its
\* request while another caller's response is still to be received.
C1_OneInFlight == Cardinality({t \in Threads : InFlight(t)}) <= 1

\* C2: the identifiers generated are 1, 2, ... with each the successor of
\* the one before modulo 1024, all within 0..1023, and the identifier
\* generated last equals none of the (up to) 1023 generated before it.  As
\* every prefix of the history is itself reached, this is the absence of a
\* repeat within any 1024 consecutive generations.
C2_IdSequence ==
    LET n == Len(gens) IN
    /\ n >= 1 => gens[1] = 1
    /\ \A i \in 1..n : gens[i] \in 0..1023
    /\ \A i \in 1..(n - 1) : gens[i + 1] = (gens[i] + 1) % 1024
    /\ \A k \in 1..1023 : k < n => gens[n - k] # gens[n]

\* C2 witness: the counter has wrapped: 1023, then 0, then 1 again.
C2_Witness ==
    /\ Len(gens) >= 1025
    /\ gens[1023] = 1023 /\ gens[1024] = 0 /\ gens[1025] = 1

\* C3: whenever the response read by a primitive carries another id than
\* the request, the call raises G3InvalidIdError and returns nothing.
C3_MismatchRaisesInvalidId ==
    \A prim \in Prims :
        (Answered(prim) /\ last.resp.id # last.req)
            => (last.exc = "G3InvalidIdError" /\ last.ret = NoValue)

\* C4: get_property, reading a response with the request's id, returns that
\* response's body, whatever it is, and raises nothing.
C4_GetPropertyReturnsBody ==
    (Answered("get_property") /\ last.resp.id = last.req)
        => (last.exc = "none" /\ last.ret = AnswerBody)

\* C4 witness: get_property returned the body false.
C4_Witness ==
    /\ Answered("get_property")
    /\ last.resp.id = last.req
    /\ last.resp.hasBody /\ last.resp.body = "false"
    /\ last.exc = "none"

\* C5: set_property, reading a response with the request's id, raises
\* G3ErrorResponse exactly when the body is the boolean false, and otherwise
\* raises nothing and returns the body.
C5_SetPropertyFalseOnly ==
    (Answered("set_property") /\ last.resp.id = last.req)
        => LET rejected == last.resp.hasBody /\ last.resp.body = "false" IN
           /\ (last.exc = "G3ErrorResponse") <=> rejected
           /\ ~rejected => (last.exc = "none" /\ last.ret = AnswerBody)

\* C5 witness: set_property returned the body 0 without raising.
C5_Witness ==
    /\ Answered("set_property")
    /\ last.resp.id = last.req
    /\ last.resp.hasBody /\ last.resp.body = "0"
    /\ last.exc = "none"

\* C6: send_action, reading a response with the request's id, raises
\* G3ErrorResponse when the response carries error_info, or error and
\* message, or a body false; otherwise it returns the body; it never fails
\* with a condition outside the taxonomy.
C6_SendActionSemantic ==
    (Answered("send_action") /\ last.resp.id = last.req)
        => LET rejected == \/ last.resp.error_info
                           \/ (last.resp.error /\ last.resp.message)
                           \/ (last.resp.hasBody /\ last.resp.body = "false")
           IN
           /\ rejected => last.exc = "G3ErrorResponse"
           /\ ~rejected => (last.exc = "none" /\ last.ret = AnswerBody)
           /\ last.exc \in Taxonomy \cup {"none"}

\* C7: a primitive invoked on a client without a live connection fails
\* with G3NotConnectedError, having written and read nothing, and the
\* client is still not connected.
C7_NotConnected ==
    (last.op \in Prims /\ ~last.conn0)
        => /\ last.exc = "G3NotConnectedError"
           /\ last.nsent = 0 /\ last.nrecv = 0
           /\ ~connected(ws) /\ ws.nopen = 0

\* C7 witness: such a call has failed.
C7_Witness ==
    /\ last.op \in Prims /\ ~last.conn0
    /\ last.exc = "G3NotConnectedError"

C9_OneTransport ==
    /\ ws.nopen <= 1
    /\ connected(ws)
          => /\ ws.nopen = 1
             /\ ws.sock = <<"ws://", glasses_address, "/websocket/">>
             /\ ws.subprotocols = <<"g3api">>
    /\ (last.op = "connect" /\ last.exc = "none")
          => (connected(ws) /\ ws.nopen = 1)

\* C9 witness: connect() succeeded on a client that was connected.
C9_Witness == last.op = "connect" /\ last.exc = "none" /\ last.conn0

\* C10: a connect() whose attempt times out fails with G3TimeoutError and
\* leaves the client not connected, with no transport open.
C10_ConnectTimeout ==
    (last.op = "connect" /\ last.env = "timeout")
        => /\ last.exc = "G3TimeoutError"
           /\ ~connected(ws) /\ ws.nopen = 0

\* C10 witness: connect() timed out on a client that was connected.
C10_Witness == last.op = "connect" /\ last.env = "timeout" /\ last.conn0

\* C11: disconnect() never raises and leaves the client not connected with
\* no transport open; on a client that is not connected it changes nothing,
\* the websocket object and its transport included, so a second
\* disconnect() leaves the state the first one left.
C11_DisconnectIdempotent ==
    [][last'.op = "disconnect"
          => /\ last'.exc = "none"
             /\ ~connected(ws') /\ ws'.nopen = 0 /\ ws'.sock = NoSock
             /\ <<glasses_address, _id, gens>>' = <<glasses_address, _id, gens>>
             /\ ~connected(ws) => ws' = ws
             /\ last.op = "disconnect" => ws' = ws]_vars

\* C11 witness: disconnect() returned on a client that was not connected.
C11_Witness == last.op = "disconnect" /\ ~last.conn0 /\ last.exc = "none"

\* C15: whenever the client is connected, its transport was opened to the
\* current glasses_address; the address changes only in a step that leaves
\* the client not connected with no transport open, and so does every
\* assignment to glasses_address.
C15_AddressFixedWhileLive ==
    /\ [](connected(ws) => ws.sock = ws_url(glasses_address))
    /\ [][(glasses_address' # glasses_address \/ last'.op = "glasses_address")
             => (~connected(ws') /\ ws'.nopen = 0)]_vars

\* C15 witness: glasses_address was assigned on a connected client.
C15_Witness ==
    /\ last.op = "glasses_address" /\ last.conn0
    /\ ~connected(ws)

\* C16: a primitive call sends at most one request and reads at most one
\* message.  A call that ends having read a message sent exactly one
\* request and read exactly that message, the oldest one waiting; every
\* other waiting message stays where it was, for the next call; nothing is
\* sent again; and if the message carries another identifier than the
\* request, the call raises G3InvalidIdError.
C16_OneExchangePerCall ==
    /\ [](/\ last.nsent <= 1 /\ last.nrecv <= 1
          /\ \A t \in Threads : call[t].nsent <= 1 /\ call[t].nrecv <= 1)
    /\ [][\A t \in Threads :
            (pc[t] = "recv" /\ pc'[t] = "idle" /\ last'.nrecv > 0)
                => /\ last'.nsent = 1 /\ last'.nrecv = 1
                   /\ ws.inbox # <<>>
                   /\ last'.resp = Head(ws.inbox)
                   /\ ws'.inbox = Tail(ws.inbox)
                   /\ ws'.wire = ws.wire
                   /\ (last'.resp.hasId /\ last'.resp.id # last'.req)
                         => last'.exc = "G3InvalidIdError"]_vars

\* C17: a primitive call begun on a client that is not connected fails
\* before an identifier is generated: while it runs, the counter _id does
\* not change.
C17_CheckBeforeId ==
    [][\A t \in Threads :
          (call[t].prim # "none" /\ ~call[t].conn0 /\ ~connected(ws))
              => _id' = _id]_vars

\* C18: each of the four primitives, reading a response that carries the
\* identifier of its request and no body field, returns the whole response,
\* unless the primitive's own rules make the response a failure.
C18_BodyFallback ==
    \A prim \in Prims :
        (/\ Answered(prim)
         /\ last.resp.id = last.req
         /\ ~last.resp.hasBody
         /\ ~(prim = "send_action"
                /\ (last.resp.error_info \/ last.resp.error)))
            => /\ last.exc = "none"
               /\ last.ret = Envelope(last.resp)

\* C20: a primitive call that reads a message that is not JSON fails with
\* an error of the client's taxonomy, returns nothing, and leaves the
\* client connected.
C20_Malformed ==
    (last.op \in Prims /\ last.nrecv = 1 /\ last.resp.kind = "text")
        => /\ last.exc \in Taxonomy
           /\ last.ret = NoValue
           /\ connected(ws) /\ ws.nopen = 1

\* A discover_g3 call went past the request to the access point address
\* and browsed; it has returned.
Scanned == scan.pc = "done" /\ scan.probe # "ok"

\* C12: a discover_g3 call whose request to the access point address fails
\* returns the host name announced last during that call if one was
\* announced, else the IPv4 address announced last during that call if one
\* was, else nothing.
C12_SelectionPolicy ==
    Scanned
        => scan.ret = IF heard.servers # <<>> THEN Last(heard.servers)
                      ELSE IF heard.ips # <<>> THEN Last(heard.ips)
                      ELSE None

\* C13: the loop of discover_g3 sleeps at most max_attempts times; a call
\* whose request to the access point address fails and during which no
\* service is announced sleeps max_attempts times and returns nothing.
C13_BoundedScan ==
    /\ scan.attempts <= max_attempts
    /\ (Scanned /\ heard.servers = <<>>)
          => (scan.ret = None /\ scan.attempts = max_attempts)

\* C14: the listener a discover_g3 call polls holds what was announced
\* during that call and nothing an earlier call discovered.
C14_NoPersistedState ==
    (scan.pc # "idle" /\ scan.probe # "ok")
        => /\ _discovered_servers = heard.servers
           /\ \A i \in DOMAIN _discovered_ips :
                  Contains(heard.ips, _discovered_ips[i])

NoDuplicates(s) == \A i, j \in DOMAIN s : s[i] = s[j] => i = j

\* C19: neither the host names nor the IPv4 addresses the listener has
\* accumulated hold an element twice.
C19_OrderedSets ==
    /\ NoDuplicates(_discovered_servers)
    /\ NoDuplicates(_discovered_ips)

\* The response read last signals rejection: a body that is false, an
\* error_info field, or an error field with a message.
Rejection ==
    \/ (last.resp.hasBody /\ last.resp.body = "false")
    \/ last.resp.error_info
    \/ (last.resp.error /\ last.resp.message)

\* C21: set_property and send_action, reading a response that carries
\* another identifier than the request, raise G3InvalidIdError even when
\* that response signals rejection; they raise G3ErrorResponse only on a
\* response that carries the identifier of the request.
C21_IdCheckFirst ==
    \A prim \in {"set_property", "send_action"} :
        Answered(prim)
            => /\ (last.resp.id # last.req /\ Rejection)
                     => last.exc = "G3InvalidIdError"
               /\ last.exc = "G3ErrorResponse" => last.resp.id = last.req

\* C21 witness: set_property read a response with another identifier and
\* a false body; send_action's case is C21_WitnessAction.
C21_Witness ==
    /\ Answered("set_property")
    /\ last.resp.id # last.req
    /\ last.resp.hasBody /\ last.resp.body = "false"
    /\ last.exc = "G3InvalidIdError"

C21_WitnessAction ==
    /\ Answered("send_action")
    /\ last.resp.id # last.req
    /\ last.resp.error_info
    /\ last.exc = "G3InvalidIdError"

\* C22: whenever the listener holds an IPv4 address it holds a host name;
\* a discover_g3 call that browsed returns a host name or nothing, never an
\* address.
C22_HostnameBeforeAddress ==
    /\ _discovered_ips # <<>> => _discovered_servers # <<>>
    /\ Scanned => scan.ret.v \in {"name", "none"}

\* C22 witness: an IPv4 address was announced during the call and removed
\* again; the call returned the host name.
C22_Witness ==
    /\ Scanned
    /\ heard.ips # <<>> /\ _discovered_ips = <<>>
    /\ scan.ret.v = "name"

====
